---- MODULE Spec2Model ----
(***************************************************************************)
(* Authentication and authorization flow of the tour-booking API           *)
(* (controllers/authController.js).  One action per request handler or     *)
(* middleware; the identity directory, the clock, the tokens signed so far *)
(* and the reset e-mails delivered so far are the persistent state, and    *)
(* req / res / nxt describe the request handled last and what the handler  *)
(* did with it.  Times are whole seconds, the resolution of a JWT's iat    *)
(* and exp (see the decoded payload quoted at authController.js:122).      *)
(***************************************************************************)
EXTENDS Integers, Sequences, FiniteSets, TLC

\* ------------------------------------------------------------------ bounds
MaxUsers == 2
MaxTime == 2
MaxResetTokens == 1
MaxTokens == 2
MaxRequests == 2

\* ------------------------------------------------- configuration (seconds)
JWT_EXPIRES_IN == 2
JWT_COOKIE_EXPIRES_IN == 3
LogoutCookieTTL == 1
ResetTokenTTL == 2

Ids == 1..MaxUsers
Salts == {"salt"}
RawTokens == 1..MaxResetTokens
Emails == {"ann@x.io", "bob@x.io"}
Passwords == {"pw-one", "pw-two"}
Roles == {"user", "lead-guide", "admin"}
NODE_ENV == "production"
JWT_SECRET == "secret"

\* JavaScript's undefined, for every optional value: an optional value is
\* either Undefined or the one-element tuple <<v>> (Some(v)).
Undefined == << >>
Some(v) == <<v>>

VARIABLES
  users,       \* directory: id -> identity record (meaningful for ids in live)
  live,        \* ids of the identities that exist
  nextId,      \* next fresh identity id
  now,         \* Date.now(), in seconds
  issued,      \* session tokens signed with JWT_SECRET so far
  nextRaw,     \* next fresh raw reset token (crypto.randomBytes)
  outbox,      \* raw reset tokens whose e-mail was delivered
  consumed,    \* raw reset tokens used by a successful resetPassword that has ended
  op,          \* handler that ran last
  req,         \* the parts of the request it reads
  res,         \* the response it wrote (status 0: none written)
  nxt,         \* its calls of next, each the tuple of arguments passed
  reqUser,     \* req.user
  localsUser,  \* res.locals.user
  inflight     \* requests handled concurrently, each at its await

store == <<users, live, nextId, nextRaw, outbox, consumed>>
vars == <<users, live, nextId, now, issued, nextRaw, outbox, consumed,
          op, req, res, nxt, reqUser, localsUser, inflight>>

\* ------------------------------------------------------------ error values
\* new AppError(message, statusCode); a missing argument is Undefined.
AppError(message, statusCode) ==
  [name |-> "AppError", message |-> message, statusCode |-> statusCode]

\* Errors thrown by libraries carry no statusCode of their own.
LibError(name) == [name |-> name, message |-> "", statusCode |-> Undefined]

\* catchAsync: a rejection of the wrapped handler is passed to next.
CatchAsync(err) == << <<err>> >>

NextOk == << << >> >>
NoNext == << >>

\* -------------------------------------------------------- credential hasher
\* bcrypt.hash: a salted one-way verifier, never the plaintext itself.
BcryptHash(plain, salt) == <<"bcrypt", salt, plain>>

\* A password as typed, before the pre-save hook hashes it.
Plain(pw) == <<"plain", pw>>

\* user.correctPassword(candidate, userPassword): bcrypt.compare.
correctPassword(candidate, userPassword) ==
  /\ Len(userPassword) = 3
  /\ userPassword[3] = candidate

\* ------------------------------------------------------------- token issuer
Jwt(sig, id, iat, exp) ==
  [fmt |-> "jwt", sig |-> sig, id |-> id, iat |-> iat, exp |-> exp]

\* A string that is no JWT at all.
NotAJwt(text) == [fmt |-> text, sig |-> "", id |-> 0, iat |-> 0, exp |-> 0]

signToken_Longer(id, t) == Jwt(JWT_SECRET, id, t, t + JWT_EXPIRES_IN + 1)

\* jwt.sign({ id }, JWT_SECRET, { expiresIn: JWT_EXPIRES_IN }) at time t.
signToken(id, t) == Jwt(JWT_SECRET, id, t, t + JWT_EXPIRES_IN)

\* The expiry test of jwt.verify at time t.
JwtExpired(token, t) == t >= token.exp

\* jwt.verify(token, JWT_SECRET) at time t: the decoded payload or the error.
JwtVerify(token, t) ==
  IF token.fmt # "jwt" \/ token.sig # JWT_SECRET
    THEN [ok |-> FALSE, err |-> "JsonWebTokenError", id |-> 0, iat |-> 0]
  ELSE IF JwtExpired(token, t)
    THEN [ok |-> FALSE, err |-> "TokenExpiredError", id |-> 0, iat |-> 0]
  ELSE [ok |-> TRUE, err |-> "", id |-> token.id, iat |-> token.iat]

\* Tokens a client can present: any token signed so far, a token with
\* well-formed claims under a wrong signature, or the logout sentinel.
ForgedTokens == {Jwt("forged", 1, now, now + JWT_EXPIRES_IN)}
LoggedOut == NotAJwt("loggedout")
ClientTokens == issued \cup ForgedTokens \cup {LoggedOut}
OptClientTokens == {Undefined} \cup {Some(t) : t \in ClientTokens}

\* ---------------------------------------------------------------- directory
BlankUser ==
  [email |-> "", role |-> "", password |-> Undefined,
   passwordChangedAt |-> Undefined, passwordResetToken |-> Undefined,
   passwordResetExpires |-> Undefined]

\* A document as a handler holds it: the stored fields, _id and the
\* virtual passwordConfirm.  The password is loaded only on select('+password').
Doc(id, withPassword) ==
  [id |-> id, email |-> users[id].email, role |-> users[id].role,
   password |-> IF withPassword THEN users[id].password ELSE Undefined,
   passwordConfirm |-> Undefined,
   passwordChangedAt |-> users[id].passwordChangedAt,
   passwordResetToken |-> users[id].passwordResetToken,
   passwordResetExpires |-> users[id].passwordResetExpires]

\* User.findById(id): Some(doc) or Undefined (null).
FindById(id, withPassword) ==
  IF id \in live THEN Some(Doc(id, withPassword)) ELSE Undefined

\* User.findOne({ email }).
FindByEmail(email, withPassword) ==
  IF \E i \in live : users[i].email = email
    THEN Some(Doc(CHOOSE i \in live : users[i].email = email, withPassword))
    ELSE Undefined

\* The keys of a document in a JSON body: JSON.stringify drops the
\* properties whose value is undefined.
JsonKeys(doc) ==
  {"_id", "email", "role"}
    \cup (IF doc.password # Undefined THEN {"password"} ELSE {})
    \cup (IF doc.passwordConfirm # Undefined THEN {"passwordConfirm"} ELSE {})
    \cup (IF doc.passwordChangedAt # Undefined THEN {"passwordChangedAt"} ELSE {})
    \cup (IF doc.passwordResetToken # Undefined THEN {"passwordResetToken"} ELSE {})
    \cup (IF doc.passwordResetExpires # Undefined THEN {"passwordResetExpires"} ELSE {})

\* Schema validation run by save(): password and passwordConfirm are
\* required and passwordConfirm must repeat the password.
Valid(doc) ==
  /\ doc.password # Undefined
  /\ doc.passwordConfirm = Some(doc.password[2])

\* The document after the pre-save hooks, saved with a modified password:
\* the password is hashed, passwordConfirm dropped, and, unless the
\* document is new, passwordChangedAt stamped.
Hashed(doc, salt, isNew) ==
  [doc EXCEPT !.password = BcryptHash(doc.password[2], salt),
              !.passwordConfirm = Undefined,
              !.passwordChangedAt = IF isNew THEN @ ELSE Some(now)]

\* The record save() leaves in the directory for a document: save writes
\* the paths that were modified, so a password that was neither selected
\* nor set stays as stored.
Stored(doc) ==
  [email |-> doc.email, role |-> doc.role,
   password |-> IF doc.password = Undefined
                  THEN users[doc.id].password ELSE doc.password,
   passwordChangedAt |-> doc.passwordChangedAt,
   passwordResetToken |-> doc.passwordResetToken,
   passwordResetExpires |-> doc.passwordResetExpires]

\* user.changedPasswordAfter(JWTTimestamp).
changedPasswordAfter(doc, JWTTimestamp) ==
  /\ doc.passwordChangedAt # Undefined
  /\ JWTTimestamp < doc.passwordChangedAt[1]

\* Sha-256 of a raw reset token, as stored in passwordResetToken.
Sha256(raw) == <<"sha256", raw>>

\* user.createPasswordResetToken(): the document with the hash of the raw
\* token and its expiry set; the raw token itself goes to the caller.
createPasswordResetToken(doc, raw) ==
  [doc EXCEPT !.passwordResetToken = Sha256(raw),
              !.passwordResetExpires = Some(now + ResetTokenTTL)]

\* User.findOne({ passwordResetToken, passwordResetExpires: { $gt: now } }).
FindByResetToken(hashedToken) ==
  LET hit == {i \in live : /\ users[i].passwordResetToken = hashedToken
                           /\ users[i].passwordResetExpires # Undefined
                           /\ users[i].passwordResetExpires[1] > now}
  IN IF hit = {} THEN Undefined ELSE Some(Doc(CHOOSE i \in hit : TRUE, FALSE))

\* ---------------------------------------------------------- request, response
NoHeader == [scheme |-> "", cred |-> Undefined]

BlankReq ==
  [authorization |-> NoHeader, cookie |-> Undefined, email |-> "",
   password |-> "", passwordConfirm |-> "", passwordCurrent |-> "",
   role |-> "", token |-> 0, roles |-> {}, deliver |-> TRUE]

NoBody == [status |-> "", token |-> Undefined, user |-> Undefined, message |-> ""]
NoRes == [status |-> 0, cookie |-> Undefined, body |-> NoBody]

Cookie(value, expires, secure) ==
  [name |-> "jwt", value |-> value, expires |-> expires, httpOnly |-> TRUE,
   secure |-> secure]

SentUser_Keep(user) == user

\* The user of the response: createSendToken blanks the password of the
\* document before it answers with it.
SentUser(user) == [user EXCEPT !.password = Undefined]

\* What createSendToken does with the document at hand: sign a token, set
\* the cookie and answer with the token and the user.
createSendToken(user, statusCode) ==
  LET token == signToken(user.id, now) IN
  [status |-> statusCode,
   cookie |-> Some(Cookie(token, now + JWT_COOKIE_EXPIRES_IN,
                          NODE_ENV = "production")),
   body |-> [status |-> "success", token |-> Some(token),
             user |-> Some(SentUser(user)), message |-> ""]]

\* The end of a handler: the request it handled, the response written, the
\* calls of next, and req.user / res.locals.user as it leaves them.
Ends(o, r, response, calls, ru, lu) ==
  /\ op' = o
  /\ req' = r
  /\ res' = response
  /\ nxt' = calls
  /\ reqUser' = ru
  /\ localsUser' = lu
  /\ inflight' = inflight

Forwards(o, r, calls) == Ends(o, r, NoRes, calls, Undefined, Undefined)

Answers(o, r, response) == Ends(o, r, response, NoNext, Undefined, Undefined)

\* createSendToken at the end of a handler; ru is req.user of the request.
SendsToken(o, r, user, statusCode, ru) ==
  /\ Cardinality(issued) < MaxTokens
  /\ Ends(o, r, createSendToken(user, statusCode), NoNext, ru, Undefined)
  /\ issued' = issued \cup {signToken(user.id, now)}

\* ------------------------------------------------------ concurrent requests
\* A request in flight: its handler, the await it is at (pc), what it
\* reads of the request, the document it holds in memory, the raw reset
\* token it generated, and its outcome once it is done.
Slots == 1..MaxRequests

IdleRequest ==
  [handler |-> "", pc |-> "idle", email |-> "", deliver |-> TRUE, token |-> 0,
   password |-> "", passwordConfirm |-> "", user |-> Undefined, raw |-> 0,
   status |-> 0, calls |-> NoNext, jwt |-> Undefined]

\* ------------------------------------------------------------------ initial
\* The directory starts empty or holding one administrator, whose role was
\* set in the database by hand (authController.js:53).
Init ==
  /\ \/ /\ users = [i \in Ids |-> BlankUser]
        /\ live = {}
        /\ nextId = 1
     \/ /\ users = [i \in Ids |->
                      IF i = 1
                        THEN [BlankUser EXCEPT
                                !.email = "ann@x.io", !.role = "admin",
                                !.password = BcryptHash("pw-one", "salt")]
                        ELSE BlankUser]
        /\ live = {1}
        /\ nextId = 2
  /\ now = 0
  /\ issued = {}
  /\ nextRaw = 1
  /\ outbox = {}
  /\ consumed = {}
  /\ op = "idle"
  /\ req = BlankReq
  /\ res = NoRes
  /\ nxt = NoNext
  /\ reqUser = Undefined
  /\ localsUser = Undefined
  /\ inflight = [s \in Slots |-> IdleRequest]

\* ----------------------------------------------------------------- handlers
\* Each handler is an operator from its request (and the directory and the
\* clock) to what it does: the calls of next, and the document it saves or
\* answers with.  ErrorCall(e) is next(e).
ErrorCall(err) == << <<err>> >>

\* User.create(fields): the new document; a role that is not given gets the
\* schema's default.
NewUser(email, password, passwordConfirm, role) ==
  [id |-> nextId, email |-> email,
   role |-> IF role = "" THEN "user" ELSE role,
   password |-> Plain(password),
   passwordConfirm |-> Some(passwordConfirm),
   passwordChangedAt |-> Undefined,
   passwordResetToken |-> Undefined,
   passwordResetExpires |-> Undefined]

signup_WholeBody(body, salt) ==
  LET newUser == NewUser(body.email, body.password, body.passwordConfirm, body.role)
  IN
  IF ~Valid(newUser)
    THEN [calls |-> CatchAsync(LibError("ValidationError")), saved |-> Undefined]
  ELSE IF \E i \in live : users[i].email = body.email
    THEN [calls |-> CatchAsync(LibError("MongoError")), saved |-> Undefined]
  ELSE [calls |-> NoNext, saved |-> Some(Hashed(newUser, salt, TRUE))]

\* signup: User.create from the body's name, email, password and
\* passwordConfirm, whatever else the body holds.
signup(body, salt) ==
  LET newUser == NewUser(body.email, body.password, body.passwordConfirm, "")
  IN
  IF ~Valid(newUser)
    THEN [calls |-> CatchAsync(LibError("ValidationError")), saved |-> Undefined]
  ELSE IF \E i \in live : users[i].email = body.email
    THEN [calls |-> CatchAsync(LibError("MongoError")), saved |-> Undefined]
  ELSE [calls |-> NoNext, saved |-> Some(Hashed(newUser, salt, TRUE))]

login_Enumerable(email, password) ==
  LET user == FindByEmail(email, TRUE) IN
  IF email = "" \/ password = ""
    THEN [calls |-> ErrorCall(AppError("Please provide email and password!", Some(400))),
          user |-> Undefined]
  ELSE IF user = Undefined
    THEN [calls |-> ErrorCall(AppError("There is no user with email address.", Some(404))),
          user |-> Undefined]
  ELSE IF ~correctPassword(password, user[1].password)
    THEN [calls |-> ErrorCall(AppError("Incorrect email or password", Some(401))),
          user |-> Undefined]
  ELSE [calls |-> NoNext, user |-> user]

login(email, password) ==
  LET user == FindByEmail(email, TRUE) IN
  IF email = "" \/ password = ""
    THEN [calls |-> ErrorCall(AppError("Please provide email and password!", Some(400))),
          user |-> Undefined]
  ELSE IF user = Undefined \/ ~correctPassword(password, user[1].password)
    THEN [calls |-> ErrorCall(AppError("Incorrect email or password", Some(401))),
          user |-> Undefined]
  ELSE [calls |-> NoNext, user |-> user]

logout_NoCookie ==
  [status |-> 200, cookie |-> Undefined,
   body |-> [NoBody EXCEPT !.status = "success"]]

\* logout: the response, with the jwt cookie overwritten by the sentinel.
logout ==
  [status |-> 200,
   cookie |-> Some(Cookie(LoggedOut, now + LogoutCookieTTL, FALSE)),
   body |-> [NoBody EXCEPT !.status = "success"]]

\* The token protect works with: the word after "Bearer" of the
\* Authorization header when the header starts with Bearer, else the cookie.
ExtractToken(authorization, cookie) ==
  IF authorization.scheme # "" /\ authorization.scheme = "Bearer"
    THEN authorization.cred
  ELSE IF cookie # Undefined THEN cookie
  ELSE Undefined

protect_NoStaleCheck(authorization, cookie) ==
  LET token == ExtractToken(authorization, cookie)
      decoded == JwtVerify(token[1], now)
      currentUser == FindById(decoded.id, FALSE)
  IN
  IF token = Undefined
    THEN [calls |-> ErrorCall(AppError(
                      "You are not logged in! Please log in to get access.", Some(401))),
          user |-> Undefined]
  ELSE IF ~decoded.ok
    THEN [calls |-> CatchAsync(LibError(decoded.err)), user |-> Undefined]
  ELSE IF currentUser = Undefined
    THEN [calls |-> ErrorCall(AppError(
                      "The user belonging to this token does no longer exist.", Some(401))),
          user |-> Undefined]
  ELSE [calls |-> NextOk, user |-> currentUser]

protect_RejectsSameSecond(authorization, cookie) ==
  LET token == ExtractToken(authorization, cookie)
      decoded == JwtVerify(token[1], now)
      currentUser == FindById(decoded.id, FALSE)
  IN
  IF token = Undefined
    THEN [calls |-> ErrorCall(AppError(
                      "You are not logged in! Please log in to get access.", Some(401))),
          user |-> Undefined]
  ELSE IF ~decoded.ok
    THEN [calls |-> CatchAsync(LibError(decoded.err)), user |-> Undefined]
  ELSE IF currentUser = Undefined
    THEN [calls |-> ErrorCall(AppError(
                      "The user belonging to this token does no longer exist.", Some(401))),
          user |-> Undefined]
  ELSE IF \/ changedPasswordAfter(currentUser[1], decoded.iat)
          \/ currentUser[1].passwordChangedAt = Some(decoded.iat)
    THEN [calls |-> ErrorCall(AppError(
                      "User recently changed password! Please log in again.", Some(401))),
          user |-> Undefined]
  ELSE [calls |-> NextOk, user |-> currentUser]

protect(authorization, cookie) ==
  LET token == ExtractToken(authorization, cookie)
      decoded == JwtVerify(token[1], now)
      currentUser == FindById(decoded.id, FALSE)
  IN
  IF token = Undefined
    THEN [calls |-> ErrorCall(AppError(
                      "You are not logged in! Please log in to get access.", Some(401))),
          user |-> Undefined]
  ELSE IF ~decoded.ok
    THEN [calls |-> CatchAsync(LibError(decoded.err)), user |-> Undefined]
  ELSE IF currentUser = Undefined
    THEN [calls |-> ErrorCall(AppError(
                      "The user belonging to this token does no longer exist.", Some(401))),
          user |-> Undefined]
  ELSE IF changedPasswordAfter(currentUser[1], decoded.iat)
    THEN [calls |-> ErrorCall(AppError(
                      "User recently changed password! Please log in again.", Some(401))),
          user |-> Undefined]
  ELSE [calls |-> NextOk, user |-> currentUser]

isLoggedIn_Rejecting(cookie) ==
  LET decoded == JwtVerify(cookie[1], now)
      currentUser == FindById(decoded.id, FALSE)
  IN
  IF cookie # Undefined
    THEN IF ~decoded.ok
           THEN [calls |-> CatchAsync(LibError(decoded.err)), user |-> Undefined]
         ELSE IF currentUser = Undefined
           THEN [calls |-> NextOk, user |-> Undefined]
         ELSE IF changedPasswordAfter(currentUser[1], decoded.iat)
           THEN [calls |-> NextOk, user |-> Undefined]
         ELSE [calls |-> NextOk, user |-> currentUser]
    ELSE [calls |-> NextOk, user |-> Undefined]

isLoggedIn(cookie) ==
  LET decoded == JwtVerify(cookie[1], now)
      currentUser == FindById(decoded.id, FALSE)
  IN
  IF cookie # Undefined
    THEN IF ~decoded.ok
           THEN [calls |-> NextOk, user |-> Undefined]
         ELSE IF currentUser = Undefined
           THEN [calls |-> NextOk, user |-> Undefined]
         ELSE IF changedPasswordAfter(currentUser[1], decoded.iat)
           THEN [calls |-> NextOk, user |-> Undefined]
         ELSE [calls |-> NextOk, user |-> currentUser]
    ELSE [calls |-> NextOk, user |-> Undefined]

restrictTo_Inverted(roles, user) ==
  IF user.role \in roles
    THEN ErrorCall(AppError("You do not have permission to perform this action",
                            Some(403)))
    ELSE NextOk

\* The middleware restrictTo(...roles) returns, applied to req.user.
restrictTo(roles, user) ==
  IF user.role \notin roles
    THEN ErrorCall(AppError("You do not have permission to perform this action",
                            Some(403)))
    ELSE NextOk

forgotPassword_NoRollback(email, deliver) ==
  LET user == FindByEmail(email, FALSE)
      withToken == createPasswordResetToken(user[1], nextRaw)
  IN
  IF user = Undefined
    THEN [calls |-> ErrorCall(AppError("There is no user with email address.", Some(404))),
          saved |-> Undefined, mailed |-> FALSE]
  ELSE IF deliver
    THEN [calls |-> NoNext, saved |-> Some(withToken), mailed |-> TRUE]
  ELSE [calls |-> << <<AppError("There was an error sending the email. Try again later!",
                                Undefined),
                       500>> >>,
        saved |-> Some(withToken), mailed |-> FALSE]

forgotPassword_UnknownEmail(email, deliver) ==
  LET user == FindByEmail(email, FALSE)
      withToken == createPasswordResetToken(user[1], nextRaw)
      cleared == [withToken EXCEPT !.passwordResetToken = Undefined,
                                   !.passwordResetExpires = Undefined]
  IN
  IF user = Undefined
    THEN [calls |-> CatchAsync(LibError("TypeError")),
          saved |-> Undefined, mailed |-> FALSE]
  ELSE IF deliver
    THEN [calls |-> NoNext, saved |-> Some(withToken), mailed |-> TRUE]
  ELSE [calls |-> << <<AppError("There was an error sending the email. Try again later!",
                                Undefined),
                       500>> >>,
        saved |-> Some(cleared), mailed |-> FALSE]

\* forgotPassword; deliver tells whether sendEmail resolves or throws.  The
\* raw token generated is nextRaw; saved is the document as the handler
\* leaves it in the directory.
forgotPassword(email, deliver) ==
  LET user == FindByEmail(email, FALSE)
      withToken == createPasswordResetToken(user[1], nextRaw)
      cleared == [withToken EXCEPT !.passwordResetToken = Undefined,
                                   !.passwordResetExpires = Undefined]
  IN
  IF user = Undefined
    THEN [calls |-> ErrorCall(AppError("There is no user with email address.", Some(404))),
          saved |-> Undefined, mailed |-> FALSE]
  ELSE IF deliver
    THEN [calls |-> NoNext, saved |-> Some(withToken), mailed |-> TRUE]
  ELSE [calls |-> << <<AppError("There was an error sending the email. Try again later!",
                                Undefined),
                       500>> >>,
        saved |-> Some(cleared), mailed |-> FALSE]

resetPassword_KeepsToken(token, password, passwordConfirm, salt) ==
  LET user == FindByResetToken(Sha256(token))
      edited == [user[1] EXCEPT !.password = Plain(password),
                                !.passwordConfirm = Some(passwordConfirm)]
  IN
  IF user = Undefined
    THEN [calls |-> ErrorCall(AppError("Token is invalid or has expired", Some(400))),
          saved |-> Undefined]
  ELSE IF ~Valid(edited)
    THEN [calls |-> CatchAsync(LibError("ValidationError")), saved |-> Undefined]
  ELSE [calls |-> NoNext, saved |-> Some(Hashed(edited, salt, FALSE))]

resetPassword_NoValidation(token, password, passwordConfirm, salt) ==
  LET hashedToken == Sha256(token)
      user == FindByResetToken(hashedToken)
      edited == [user[1] EXCEPT !.password = Plain(password),
                                !.passwordConfirm = Some(passwordConfirm),
                                !.passwordResetToken = Undefined,
                                !.passwordResetExpires = Undefined]
  IN
  IF user = Undefined
    THEN [calls |-> ErrorCall(AppError("Token is invalid or has expired", Some(400))),
          saved |-> Undefined]
  ELSE [calls |-> NoNext, saved |-> Some(Hashed(edited, salt, FALSE))]

\* resetPassword with the raw token of the URL and the body's passwords.
resetPassword(token, password, passwordConfirm, salt) ==
  LET hashedToken == Sha256(token)
      user == FindByResetToken(hashedToken)
      edited == [user[1] EXCEPT !.password = Plain(password),
                                !.passwordConfirm = Some(passwordConfirm),
                                !.passwordResetToken = Undefined,
                                !.passwordResetExpires = Undefined]
  IN
  IF user = Undefined
    THEN [calls |-> ErrorCall(AppError("Token is invalid or has expired", Some(400))),
          saved |-> Undefined]
  ELSE IF ~Valid(edited)
    THEN [calls |-> CatchAsync(LibError("ValidationError")), saved |-> Undefined]
  ELSE [calls |-> NoNext, saved |-> Some(Hashed(edited, salt, FALSE))]

updatePassword_FindByIdAndUpdate(id, passwordCurrent, password, passwordConfirm, salt) ==
  LET user == FindById(id, TRUE)
      edited == [user[1] EXCEPT !.password = Plain(password),
                                !.passwordConfirm = Some(passwordConfirm)]
  IN
  IF user = Undefined
    THEN [calls |-> CatchAsync(LibError("TypeError")), saved |-> Undefined]
  ELSE IF ~correctPassword(passwordCurrent, user[1].password)
    THEN [calls |-> ErrorCall(AppError("Your current password is wrong.", Some(401))),
          saved |-> Undefined]
  ELSE IF ~Valid(edited)
    THEN [calls |-> CatchAsync(LibError("ValidationError")), saved |-> Undefined]
  ELSE [calls |-> NoNext,
        saved |-> Some([edited EXCEPT !.password = BcryptHash(password, salt),
                                      !.passwordConfirm = Undefined])]

updatePassword_NoCurrentCheck(id, passwordCurrent, password, passwordConfirm, salt) ==
  LET user == FindById(id, TRUE)
      edited == [user[1] EXCEPT !.password = Plain(password),
                                !.passwordConfirm = Some(passwordConfirm)]
  IN
  IF user = Undefined
    THEN [calls |-> CatchAsync(LibError("TypeError")), saved |-> Undefined]
  ELSE IF ~Valid(edited)
    THEN [calls |-> CatchAsync(LibError("ValidationError")), saved |-> Undefined]
  ELSE [calls |-> NoNext, saved |-> Some(Hashed(edited, salt, FALSE))]

\* updatePassword for the identity protect attached (id is req.user.id).
updatePassword(id, passwordCurrent, password, passwordConfirm, salt) ==
  LET user == FindById(id, TRUE)
      edited == [user[1] EXCEPT !.password = Plain(password),
                                !.passwordConfirm = Some(passwordConfirm)]
  IN
  IF user = Undefined
    THEN [calls |-> CatchAsync(LibError("TypeError")), saved |-> Undefined]
  ELSE IF ~correctPassword(passwordCurrent, user[1].password)
    THEN [calls |-> ErrorCall(AppError("Your current password is wrong.", Some(401))),
          saved |-> Undefined]
  ELSE IF ~Valid(edited)
    THEN [calls |-> CatchAsync(LibError("ValidationError")), saved |-> Undefined]
  ELSE [calls |-> NoNext, saved |-> Some(Hashed(edited, salt, FALSE))]

\* ------------------------------------------------------------------ actions
\* Requests are handled one after the other: a handler starts when no
\* request is at hand, and Done ends the request at hand.
context == <<op, req, res, nxt, reqUser, localsUser, inflight>>

Ready == op = "idle"

\* The request at hand passed protect and goes on down its route.
Admitted == op = "protect" /\ nxt = NextOk

Done ==
  /\ ~Ready
  /\ Ends("idle", BlankReq, NoRes, NoNext, Undefined, Undefined)
  /\ consumed' = IF op = "resetPassword" /\ res.status = 200
                   THEN consumed \cup {req.token} ELSE consumed
  /\ UNCHANGED <<users, live, nextId, nextRaw, outbox, now, issued>>

\* A second passes between two requests.
Tick ==
  /\ Ready
  /\ now < MaxTime
  /\ now' = now + 1
  /\ UNCHANGED <<store, issued, context>>

\* An identity is removed from the directory, between two requests.
DeleteUser(id) ==
  /\ Ready
  /\ id \in live
  /\ live' = live \ {id}
  /\ users' = [users EXCEPT ![id] = BlankUser]
  /\ UNCHANGED <<nextId, now, issued, nextRaw, outbox, consumed, context>>

Signup(email, password, passwordConfirm, role, salt) ==
  LET r == [BlankReq EXCEPT !.email = email, !.password = password,
                            !.passwordConfirm = passwordConfirm,
                            !.role = role]
      out == signup(r, salt)
  IN
  /\ Ready
  /\ nextId <= MaxUsers
  /\ IF out.saved = Undefined
       THEN /\ Forwards("signup", r, out.calls)
            /\ UNCHANGED <<store, issued>>
       ELSE /\ users' = [users EXCEPT ![nextId] = Stored(out.saved[1])]
            /\ live' = live \cup {nextId}
            /\ nextId' = nextId + 1
            /\ SendsToken("signup", r, out.saved[1], 201, Undefined)
            /\ UNCHANGED <<nextRaw, outbox, consumed>>
  /\ UNCHANGED now

Login(email, password) ==
  LET r == [BlankReq EXCEPT !.email = email, !.password = password]
      out == login(email, password)
  IN
  /\ Ready
  /\ IF out.user = Undefined
       THEN /\ Forwards("login", r, out.calls)
            /\ UNCHANGED issued
       ELSE SendsToken("login", r, out.user[1], 200, Undefined)
  /\ UNCHANGED <<store, now>>

Logout ==
  /\ Ready
  /\ Answers("logout", BlankReq, logout)
  /\ UNCHANGED <<store, now, issued>>

Protect(authorization, cookie) ==
  LET out == protect(authorization, cookie) IN
  /\ Ready
  /\ Ends("protect",
          [BlankReq EXCEPT !.authorization = authorization, !.cookie = cookie],
          NoRes, out.calls, out.user, out.user)
  /\ UNCHANGED <<store, now, issued>>

IsLoggedIn(cookie) ==
  LET out == isLoggedIn(cookie) IN
  /\ Ready
  /\ Ends("isLoggedIn", [BlankReq EXCEPT !.cookie = cookie],
          NoRes, out.calls, Undefined, out.user)
  /\ UNCHANGED <<store, now, issued>>

RestrictTo(roles) ==
  /\ Admitted
  /\ Ends("restrictTo", [BlankReq EXCEPT !.roles = roles], NoRes,
          restrictTo(roles, reqUser[1]), reqUser, localsUser)
  /\ UNCHANGED <<store, now, issued>>

ForgotPassword(email, deliver) ==
  LET r == [BlankReq EXCEPT !.email = email, !.deliver = deliver]
      out == forgotPassword(email, deliver)
  IN
  /\ Ready
  /\ IF out.saved = Undefined
       THEN /\ Forwards("forgotPassword", r, out.calls)
            /\ UNCHANGED store
       ELSE /\ nextRaw <= MaxResetTokens
            /\ nextRaw' = nextRaw + 1
            /\ users' = [users EXCEPT ![out.saved[1].id] = Stored(out.saved[1])]
            /\ outbox' = IF out.mailed THEN outbox \cup {nextRaw} ELSE outbox
            /\ IF out.calls = NoNext
                 THEN Answers("forgotPassword", r,
                        [status |-> 200, cookie |-> Undefined,
                         body |-> [NoBody EXCEPT !.status = "success",
                                                 !.message = "Token sent to email!"]])
                 ELSE Forwards("forgotPassword", r, out.calls)
            /\ UNCHANGED <<live, nextId, consumed>>
  /\ UNCHANGED <<now, issued>>

ResetPassword(token, password, passwordConfirm, salt) ==
  LET r == [BlankReq EXCEPT !.token = token, !.password = password,
                            !.passwordConfirm = passwordConfirm]
      out == resetPassword(token, password, passwordConfirm, salt)
  IN
  /\ Ready
  /\ IF out.saved = Undefined
       THEN /\ Forwards("resetPassword", r, out.calls)
            /\ UNCHANGED <<users, issued>>
       ELSE /\ users' = [users EXCEPT ![out.saved[1].id] = Stored(out.saved[1])]
            /\ SendsToken("resetPassword", r, out.saved[1], 200, Undefined)
  /\ UNCHANGED <<live, nextId, nextRaw, outbox, consumed, now>>

UpdatePassword(passwordCurrent, password, passwordConfirm, salt) ==
  LET r == [BlankReq EXCEPT !.passwordCurrent = passwordCurrent,
                            !.password = password,
                            !.passwordConfirm = passwordConfirm]
      out == updatePassword(reqUser[1].id, passwordCurrent, password,
                            passwordConfirm, salt)
  IN
  /\ Admitted
  /\ IF out.saved = Undefined
       THEN /\ Ends("updatePassword", r, NoRes, out.calls, reqUser, localsUser)
            /\ UNCHANGED <<users, issued>>
       ELSE /\ users' = [users EXCEPT ![out.saved[1].id] = Stored(out.saved[1])]
            /\ SendsToken("updatePassword", r, out.saved[1], 200, reqUser)
  /\ UNCHANGED <<live, nextId, nextRaw, outbox, consumed, now>>

\* Authorization headers a client can send: none, "Bearer" alone,
\* "Bearer <token>", or another scheme with its credentials.
Headers ==
  {NoHeader, [scheme |-> "Bearer", cred |-> Undefined],
   [scheme |-> "Basic", cred |-> Some(NotAJwt("credentials"))]}
    \cup {[scheme |-> "Bearer", cred |-> Some(t)] : t \in ClientTokens}

\* The role a signup body may carry: none, or one it asks for.
BodyRoles == {"", "admin"}

Next ==
  \/ Tick
  \/ Done
  \/ \E id \in Ids : DeleteUser(id)
  \/ \E e \in Emails, p \in Passwords, c \in Passwords,
        r \in BodyRoles, s \in Salts :
       Signup(e, p, c, r, s)
  \/ \E e \in Emails \cup {""}, p \in Passwords \cup {""} : Login(e, p)
  \/ Logout
  \/ \E h \in Headers, c \in OptClientTokens : Protect(h, c)
  \/ \E c \in OptClientTokens : IsLoggedIn(c)
  \/ \E roles \in SUBSET Roles : RestrictTo(roles)
  \/ \E e \in Emails, d \in BOOLEAN : ForgotPassword(e, d)
  \/ \E t \in RawTokens, p \in Passwords, c \in Passwords, s \in Salts :
       ResetPassword(t, p, c, s)
  \/ \E pc \in Passwords, p \in Passwords, c \in Passwords, s \in Salts :
       UpdatePassword(pc, p, c, s)

Spec == Init /\ [][Next]_vars

\* ------------------------------------------- handlers, one await at a time
\* Raw reset tokens generated so far.
Generated(raw) == raw \in 1..(nextRaw - 1)

\* forgotPassword and resetPassword as the event loop runs them: a handler
\* runs up to its next await, and the handlers of other requests run in
\* between.  Each request keeps its own document in memory; save() writes
\* the paths the handler modified to the stored document of that _id.
sequential == <<op, req, res, nxt, reqUser, localsUser>>

At(s, handler, pc) ==
  inflight[s].handler = handler /\ inflight[s].pc = pc

Becomes(s, request) == inflight' = [inflight EXCEPT ![s] = request]

\* save() of a document whose reset fields were modified.
SaveResetFields(doc) ==
  [users EXCEPT ![doc.id].passwordResetToken = doc.passwordResetToken,
                ![doc.id].passwordResetExpires = doc.passwordResetExpires]

\* save() of a document whose password and reset fields were modified.
SavePassword(doc) ==
  [users EXCEPT ![doc.id].password = doc.password,
                ![doc.id].passwordChangedAt = doc.passwordChangedAt,
                ![doc.id].passwordResetToken = doc.passwordResetToken,
                ![doc.id].passwordResetExpires = doc.passwordResetExpires]

\* The directory holds one administrator with the reset token of a
\* forgotPassword that was answered at time 0.
InitInterleaved ==
  /\ users = [i \in Ids |->
                IF i = 1
                  THEN [BlankUser EXCEPT
                          !.email = "ann@x.io", !.role = "admin",
                          !.password = BcryptHash("pw-one", "salt"),
                          !.passwordResetToken = Sha256(1),
                          !.passwordResetExpires = Some(ResetTokenTTL)]
                  ELSE BlankUser]
  /\ live = {1}
  /\ nextId = 2
  /\ now = 0
  /\ issued = {}
  /\ nextRaw = 2
  /\ outbox = {1}
  /\ consumed = {}
  /\ op = "idle"
  /\ req = BlankReq
  /\ res = NoRes
  /\ nxt = NoNext
  /\ reqUser = Undefined
  /\ localsUser = Undefined
  /\ inflight = [s \in Slots |-> IdleRequest]

TickInterleaved ==
  /\ now < MaxTime
  /\ now' = now + 1
  /\ UNCHANGED <<store, issued, context>>

StartForgotPassword(s, email, deliver) ==
  /\ At(s, "", "idle")
  /\ Becomes(s, [IdleRequest EXCEPT !.handler = "forgotPassword", !.pc = "find",
                                    !.email = email, !.deliver = deliver])
  /\ UNCHANGED <<store, now, issued, sequential>>

\* await User.findOne({ email }), and the 404 when there is none.
ForgotFind(s) ==
  LET user == FindByEmail(inflight[s].email, FALSE) IN
  /\ At(s, "forgotPassword", "find")
  /\ IF user = Undefined
       THEN Becomes(s, [inflight[s] EXCEPT
                          !.pc = "done",
                          !.calls = ErrorCall(AppError(
                             "There is no user with email address.", Some(404)))])
       ELSE Becomes(s, [inflight[s] EXCEPT !.pc = "save", !.user = user])
  /\ UNCHANGED <<store, now, issued, sequential>>

\* user.createPasswordResetToken(); await user.save(...).
ForgotSave(s) ==
  LET withToken == createPasswordResetToken(inflight[s].user[1], nextRaw) IN
  /\ At(s, "forgotPassword", "save")
  /\ users' = SaveResetFields(withToken)
  /\ nextRaw' = nextRaw + 1
  /\ Becomes(s, [inflight[s] EXCEPT !.pc = "mail", !.user = Some(withToken),
                                    !.raw = nextRaw])
  /\ UNCHANGED <<live, nextId, outbox, consumed, now, issued, sequential>>

\* await sendEmail(...): it resolves and the handler answers 200, or it
\* throws and the catch block clears the reset fields of its document.
ForgotMail(s) ==
  /\ At(s, "forgotPassword", "mail")
  /\ IF inflight[s].deliver
       THEN /\ outbox' = outbox \cup {inflight[s].raw}
            /\ Becomes(s, [inflight[s] EXCEPT !.pc = "done", !.status = 200])
       ELSE /\ outbox' = outbox
            /\ Becomes(s, [inflight[s] EXCEPT
                             !.pc = "rollback",
                             !.user = Some([@[1] EXCEPT
                                              !.passwordResetToken = Undefined,
                                              !.passwordResetExpires = Undefined])])
  /\ UNCHANGED <<users, live, nextId, nextRaw, consumed, now, issued, sequential>>

\* await user.save(...) of the catch block, then next(err, 500).
ForgotRollback(s) ==
  /\ At(s, "forgotPassword", "rollback")
  /\ users' = SaveResetFields(inflight[s].user[1])
  /\ Becomes(s, [inflight[s] EXCEPT
                   !.pc = "done",
                   !.calls = << <<AppError(
                      "There was an error sending the email. Try again later!",
                      Undefined), 500>> >>])
  /\ UNCHANGED <<live, nextId, nextRaw, outbox, consumed, now, issued, sequential>>

StartResetPassword(s, token, password, passwordConfirm) ==
  /\ At(s, "", "idle")
  /\ Generated(token)
  /\ Becomes(s, [IdleRequest EXCEPT !.handler = "resetPassword", !.pc = "find",
                                    !.token = token, !.password = password,
                                    !.passwordConfirm = passwordConfirm])
  /\ UNCHANGED <<store, now, issued, sequential>>

\* await User.findOne({ passwordResetToken, passwordResetExpires }), the 400
\* when there is none, else the four assignments to the document.
ResetFind(s) ==
  LET user == FindByResetToken(Sha256(inflight[s].token)) IN
  /\ At(s, "resetPassword", "find")
  /\ IF user = Undefined
       THEN Becomes(s, [inflight[s] EXCEPT
                          !.pc = "done",
                          !.calls = ErrorCall(AppError(
                             "Token is invalid or has expired", Some(400)))])
       ELSE Becomes(s, [inflight[s] EXCEPT
                          !.pc = "save",
                          !.user = Some([user[1] EXCEPT
                             !.password = Plain(inflight[s].password),
                             !.passwordConfirm = Some(inflight[s].passwordConfirm),
                             !.passwordResetToken = Undefined,
                             !.passwordResetExpires = Undefined])])
  /\ UNCHANGED <<store, now, issued, sequential>>

\* await user.save(): validation, the pre-save hooks and the write.
ResetSave(s, salt) ==
  LET doc == inflight[s].user[1] IN
  /\ At(s, "resetPassword", "save")
  /\ IF ~Valid(doc)
       THEN /\ Becomes(s, [inflight[s] EXCEPT
                             !.pc = "done",
                             !.calls = CatchAsync(LibError("ValidationError"))])
            /\ UNCHANGED <<users, consumed>>
       ELSE /\ users' = SavePassword(Hashed(doc, salt, FALSE))
            /\ consumed' = consumed \cup {inflight[s].token}
            /\ Becomes(s, [inflight[s] EXCEPT
                             !.pc = "send",
                             !.user = Some(Hashed(doc, salt, FALSE))])
  /\ UNCHANGED <<live, nextId, nextRaw, outbox, now, issued, sequential>>

\* createSendToken(user, 200, res).
ResetSend(s) ==
  LET response == createSendToken(inflight[s].user[1], 200) IN
  /\ At(s, "resetPassword", "send")
  /\ issued' = issued \cup {response.body.token[1]}
  /\ Becomes(s, [inflight[s] EXCEPT !.pc = "done", !.status = response.status,
                                    !.jwt = response.body.token])
  /\ UNCHANGED <<store, now, sequential>>

NextInterleaved ==
  \/ TickInterleaved
  \/ \E s \in Slots, e \in Emails, d \in BOOLEAN : StartForgotPassword(s, e, d)
  \/ \E s \in Slots : ForgotFind(s)
  \/ \E s \in Slots : ForgotSave(s)
  \/ \E s \in Slots : ForgotMail(s)
  \/ \E s \in Slots : ForgotRollback(s)
  \/ \E s \in Slots, t \in 1..(MaxResetTokens + MaxRequests),
        p \in Passwords, c \in Passwords :
       StartResetPassword(s, t, p, c)
  \/ \E s \in Slots : ResetFind(s)
  \/ \E s \in Slots, salt \in Salts : ResetSave(s, salt)
  \/ \E s \in Slots : ResetSend(s)

SpecInterleaved == InitInterleaved /\ [][NextInterleaved]_vars

\* ------------------------------------------------------------------- claims
\* The token the request at hand presents, and the facts about it as the
\* directory and the clock hold them.
Presented == ExtractToken(req.authorization, req.cookie)

ServerSigned(t) == t.fmt = "jwt" /\ t.sig = JWT_SECRET

Unchanged(t) ==
  \/ users[t.id].passwordChangedAt = Undefined
  \/ users[t.id].passwordChangedAt[1] <= t.iat

Sound(t) == ServerSigned(t) /\ now < t.exp /\ t.id \in live /\ Unchanged(t)

ForwardsError == Len(nxt) = 1 /\ Len(nxt[1]) >= 1

ForwardsErrorOf(code, message) == nxt = ErrorCall(AppError(message, Some(code)))

\* C1: protect lets a request through with an identity attached (req.user
\* and res.locals.user set, next called without an error) only if a token
\* was extracted, it verifies (server's signature, not expired), its
\* identity still exists and the identity's password did not change after
\* the token was issued; otherwise it forwards an error and attaches nothing.
C1_ProtectAdmitsOnlySoundTokens ==
  op = "protect" =>
    /\ (nxt = NextOk \/ reqUser # Undefined \/ localsUser # Undefined) =>
         /\ Presented # Undefined
         /\ Sound(Presented[1])
         /\ nxt = NextOk
         /\ reqUser = Some(Doc(Presented[1].id, FALSE))
         /\ localsUser = reqUser
    /\ nxt # NextOk =>
         /\ ForwardsError
         /\ reqUser = Undefined
         /\ localsUser = Undefined
    /\ res = NoRes

C1_Witness ==
  /\ op = "protect"
  /\ nxt = NextOk
  /\ reqUser # Undefined
  /\ req.cookie # Undefined

\* C2 as stated: once updatePassword has succeeded for an identity, protect
\* rejects every token that was issued for that identity before the update.
AdmitsBearer(t) ==
  protect([scheme |-> "Bearer", cred |-> Some(t)], Undefined).calls = NextOk

UpdateSucceeds == op' = "updatePassword" /\ res'.status = 200

C2_UpdateRevokesOlderTokens ==
  [][UpdateSucceeds =>
       \A t \in issued : t.id = reqUser[1].id => ~AdmitsBearer(t)']_vars

\* C2, amended: once updatePassword has succeeded for an identity, protect
\* rejects every token issued for that identity in a second before the
\* second of the update, expired or not; and protect never admits a token
\* whose issued-at second is before the identity's password-changed second.
C2_UpdateRevokesTokensOfEarlierSeconds ==
  /\ [][UpdateSucceeds =>
          \A t \in issued :
            (t.id = reqUser[1].id /\ t.iat < now) => ~AdmitsBearer(t)']_vars
  /\ []((op = "protect" /\ nxt = NextOk) =>
          \/ users[Presented[1].id].passwordChangedAt = Undefined
          \/ users[Presented[1].id].passwordChangedAt[1] <= Presented[1].iat)

C2_Witness ==
  /\ op = "updatePassword"
  /\ res.status = 200
  /\ \E t \in issued : /\ t.id = reqUser[1].id
                       /\ t.iat < users[t.id].passwordChangedAt[1]
                       /\ now < t.exp

\* C3: a reset token is single-use: a resetPassword with a raw token that an
\* earlier resetPassword has consumed fails with 400, "Token is invalid or
\* has expired", and writes no response.
C3_ResetTokenSingleUse ==
  (op = "resetPassword" /\ req.token \in consumed) =>
    /\ ForwardsErrorOf(400, "Token is invalid or has expired")
    /\ res = NoRes

C3_Witness ==
  /\ op = "resetPassword"
  /\ req.token \in consumed
  /\ req.password = req.passwordConfirm

\* C4: when forgotPassword stored a reset token and the delivery failed, the
\* identity's reset-token hash and expiry are both cleared when the request
\* ends, and a resetPassword with the undelivered raw token fails.
C4_FailedDeliveryClearsToken ==
  /\ (op = "forgotPassword" /\ ~req.deliver) =>
       \A i \in live : users[i].email = req.email =>
         /\ users[i].passwordResetToken = Undefined
         /\ users[i].passwordResetExpires = Undefined
  /\ (op = "resetPassword" /\ Generated(req.token) /\ req.token \notin outbox) =>
       /\ ForwardsErrorOf(400, "Token is invalid or has expired")
       /\ res = NoRes

C4_Witness ==
  /\ op = "resetPassword"
  /\ Generated(req.token)
  /\ req.token \notin outbox
  /\ req.password = req.passwordConfirm

\* C5: when the delivery fails in forgotPassword, the error handed to next
\* carries status code 500.
C5_DeliveryFailureCarries500 ==
  (op = "forgotPassword" /\ ~req.deliver
     /\ \E i \in live : users[i].email = req.email) =>
    /\ ForwardsError
    /\ nxt[1][1].statusCode = Some(500)

\* C6: a login with email and password present gets the same outcome when
\* no identity has the email as when the identity's password does not
\* verify: 401 "Incorrect email or password", no token, no cookie.
NoSuchEmail(email) == \A i \in live : users[i].email # email

WrongPassword(email, password) ==
  \E i \in live : users[i].email = email /\ users[i].password[3] # password

C6_LoginFailuresIndistinguishable ==
  (op = "login" /\ req.email # "" /\ req.password # ""
     /\ (NoSuchEmail(req.email) \/ WrongPassword(req.email, req.password))) =>
    /\ ForwardsErrorOf(401, "Incorrect email or password")
    /\ res = NoRes

C6_Witness ==
  /\ op = "login"
  /\ req.password # ""
  /\ NoSuchEmail(req.email)
  /\ \E e \in Emails : WrongPassword(e, req.password)

C8_RestrictToByRole ==
  op = "restrictTo" =>
    /\ reqUser # Undefined
    /\ reqUser = Some(Doc(reqUser[1].id, FALSE))
    /\ localsUser = reqUser
    /\ res = NoRes
    /\ IF reqUser[1].role \in req.roles
         THEN nxt = NextOk
         ELSE ForwardsErrorOf(403, "You do not have permission to perform this action")

C8_Witness ==
  /\ op = "restrictTo"
  /\ req.roles = {"admin", "lead-guide"}
  /\ reqUser[1].role = "user"
  /\ nxt # NextOk

\* C9: protect's verification accepts a token issued at T with lifetime
\* JWT_EXPIRES_IN at every time before T + JWT_EXPIRES_IN and rejects it as
\* expired at every time from T + JWT_EXPIRES_IN on.
C9_TokenLifetime ==
  (op = "protect" /\ Presented # Undefined /\ Presented \in {Some(t) : t \in issued}) =>
    IF now < Presented[1].iat + JWT_EXPIRES_IN
      THEN /\ nxt # CatchAsync(LibError("TokenExpiredError"))
           /\ nxt # CatchAsync(LibError("JsonWebTokenError"))
      ELSE nxt = CatchAsync(LibError("TokenExpiredError"))

C9_Witness ==
  /\ op = "protect"
  /\ Presented # Undefined
  /\ Presented \in {Some(t) : t \in issued}
  /\ now = Presented[1].iat + JWT_EXPIRES_IN
  /\ nxt = CatchAsync(LibError("TokenExpiredError"))

\* C10: every response that carries a user (signup, login, resetPassword,
\* updatePassword) carries it without the password field.
C10_NoPasswordInResponse ==
  res.body.user # Undefined =>
    /\ op \in {"signup", "login", "resetPassword", "updatePassword"}
    /\ "password" \notin JsonKeys(res.body.user[1])

C10_Witness ==
  /\ op = "login"
  /\ res.status = 200
  /\ res.body.user # Undefined
  /\ res.body.user[1].passwordChangedAt # Undefined

\* C11 as stated: protect takes the token of a "Bearer <token>"
\* Authorization header when the header supplies one, ignoring the cookie,
\* and otherwise (no header, another scheme, "Bearer" with nothing after
\* it) verifies the token of the jwt cookie when there is one: the request
\* fares as the same request without the part that is not used.
Supplies(authorization) ==
  authorization.scheme = "Bearer" /\ authorization.cred # Undefined

C11_ExtractionFallsBackToCookie ==
  op = "protect" =>
    IF Supplies(req.authorization)
      THEN /\ nxt = protect(req.authorization, Undefined).calls
           /\ reqUser = protect(req.authorization, Undefined).user
      ELSE req.cookie # Undefined =>
             /\ nxt = protect(NoHeader, req.cookie).calls
             /\ reqUser = protect(NoHeader, req.cookie).user

\* C12: the identity signup creates is built from the body's email,
\* password and passwordConfirm alone: whatever role the body carries, the
\* identity created has the default role "user", the body's email and the
\* verifier of the body's password, and nothing else set.
C12_SignupIgnoresBodyRole ==
  (op = "signup" /\ res.status = 201) =>
    /\ res.body.user # Undefined
    /\ res.body.user[1].id \in live
    /\ \E salt \in Salts :
         users[res.body.user[1].id] =
           [BlankUser EXCEPT !.email = req.email, !.role = "user",
                             !.password = BcryptHash(req.password, salt)]
    /\ res.body.user[1].role = "user"

C12_Witness ==
  /\ op = "signup"
  /\ res.status = 201
  /\ req.role = "admin"

\* C13: when resetPassword finds the identity of a valid, unexpired raw
\* token and the save is rejected (passwordConfirm does not repeat the
\* password), it forwards the validation error, answers nothing and leaves
\* the directory as it was, reset-token hash, expiry and password verifier
\* included; a resetPassword with the same raw token and a valid body
\* still succeeds.
ValidationFails == nxt = CatchAsync(LibError("ValidationError"))

C13_FailedResetKeepsToken ==
  /\ [][(/\ op' = "resetPassword"
         /\ FindByResetToken(Sha256(req'.token)) # Undefined
         /\ req'.password # req'.passwordConfirm) =>
          /\ ValidationFails'
          /\ res' = NoRes
          /\ users' = users
          /\ issued' = issued]_vars
  /\ []((op = "resetPassword" /\ ValidationFails) =>
          \A p \in Passwords, salt \in Salts :
            resetPassword(req.token, p, p, salt).calls = NoNext)

C13_Witness ==
  /\ op = "resetPassword"
  /\ ValidationFails
  /\ req.token \in outbox
  /\ \E i \in live : users[i].passwordResetToken = Sha256(req.token)

\* C14: logout always answers 200, overwrites the jwt cookie with
\* 'loggedout' and changes no identity record; a request that carries only
\* that cookie is never authenticated: protect forwards an error and
\* attaches nothing, isLoggedIn goes on without an identity.
CookieOnly(value) ==
  req.authorization = NoHeader /\ req.cookie = Some(value)

C15_WrongCurrentPasswordChangesNothing ==
  [][op' = "updatePassword" =>
       IF ~correctPassword(req'.passwordCurrent, users[reqUser[1].id].password)
         THEN /\ nxt' = ErrorCall(AppError("Your current password is wrong.", Some(401)))
              /\ res' = NoRes
              /\ users' = users
              /\ issued' = issued
         ELSE res'.status = 200 =>
                /\ \E salt \in Salts :
                     users'[reqUser[1].id].password = BcryptHash(req'.password, salt)
                /\ res'.body.token = Some(signToken(reqUser[1].id, now))
                /\ res'.cookie # Undefined
                /\ res'.cookie[1].value = signToken(reqUser[1].id, now)
                /\ signToken(reqUser[1].id, now) \in issued']_vars

C15_Witness ==
  /\ op = "updatePassword"
  /\ nxt = ErrorCall(AppError("Your current password is wrong.", Some(401)))
  /\ req.password = req.passwordConfirm

\* C16: forgotPassword for an email no identity has forwards 404 and
\* changes no identity record; for a known email whose delivery succeeds it
\* answers 200 and leaves the hash of the generated token and its expiry on
\* that identity, every other identity as it was.
C16_ForgotPasswordOutcomes ==
  [][op' = "forgotPassword" =>
       IF NoSuchEmail(req'.email)
         THEN /\ nxt' = ErrorCall(AppError("There is no user with email address.",
                                           Some(404)))
              /\ res' = NoRes
              /\ users' = users
              /\ outbox' = outbox
         ELSE req'.deliver =>
                /\ res'.status = 200
                /\ nxt' = NoNext
                /\ nextRaw \in outbox'
                /\ \A i \in live :
                     IF users[i].email = req'.email
                       THEN users'[i] =
                              [users[i] EXCEPT
                                 !.passwordResetToken = Sha256(nextRaw),
                                 !.passwordResetExpires = Some(now + ResetTokenTTL)]
                       ELSE users'[i] = users[i]]_vars

C16_Witness ==
  /\ op = "forgotPassword"
  /\ res.status = 200
  /\ \E i \in live : /\ users[i].email = req.email
                     /\ users[i].passwordResetToken # Undefined
                     /\ users[i].passwordResetExpires = Some(now + ResetTokenTTL)
  /\ \E j \in live : /\ users[j].email # req.email
                     /\ users[j].passwordResetToken = Undefined

\* C19: the token that resetPassword or updatePassword answers with is
\* accepted by protect, as a Bearer token and as the cookie: the identity's
\* password-changed time is not after the token's issued-at time.
C19_IssuedTokenIsAccepted ==
  (op \in {"resetPassword", "updatePassword"} /\ res.status = 200) =>
    /\ res.body.token # Undefined
    /\ res.cookie # Undefined
    /\ res.cookie[1].value = res.body.token[1]
    /\ users[res.body.token[1].id].passwordChangedAt # Undefined
    /\ users[res.body.token[1].id].passwordChangedAt[1] <= res.body.token[1].iat
    /\ AdmitsBearer(res.body.token[1])
    /\ protect(NoHeader, Some(res.cookie[1].value)).calls = NextOk

C19_Witness ==
  /\ op = "resetPassword"
  /\ res.status = 200
  /\ now > 0
  /\ users[res.body.token[1].id].passwordChangedAt = Some(now)

\* C17 as stated: of the resetPassword requests handled concurrently with
\* the same raw token, at most one succeeds (changes the password and is
\* answered 200 with a session token).
ResetSucceeded(s, token) ==
  /\ inflight[s].handler = "resetPassword"
  /\ inflight[s].token = token
  /\ inflight[s].status = 200
  /\ inflight[s].jwt # Undefined

C17_AtMostOneResetSucceeds ==
  \A token \in 1..(MaxResetTokens + MaxRequests) :
    Cardinality({s \in Slots : ResetSucceeded(s, token)}) <= 1

\* C18 as stated: while only forgotPassword requests are in flight, the
\* reset token of a request whose e-mail was delivered stays stored on the
\* identity (so consumable) as long as it has not expired, has not been
\* consumed and no newer token has been generated: no other request's
\* rollback clears it.
OnlyForgotPassword ==
  \A s \in Slots : inflight[s].handler \in {"", "forgotPassword"}

Delivered(s) ==
  inflight[s].handler = "forgotPassword" /\ inflight[s].status = 200

Newest(raw) == \A s \in Slots : inflight[s].raw <= raw

C18_RollbackClearsOwnTokenOnly ==
  OnlyForgotPassword =>
    \A s \in Slots :
      (/\ Delivered(s)
       /\ now < inflight[s].user[1].passwordResetExpires[1]
       /\ inflight[s].raw \notin consumed
       /\ Newest(inflight[s].raw)) =>
        FindByResetToken(Sha256(inflight[s].raw)) # Undefined
====
